---- MODULE Spec2Model ----
(***************************************************************************)
(* Process supervisor of go_web_scaffolding (src/main.go): ordered start   *)
(* of settings, logger, MySQL and Redis, the HTTP listener on a background *)
(* goroutine, the wait for SIGINT/SIGTERM, srv.Shutdown with a 5 second    *)
(* context, and the deferred teardown of the two stores.                   *)
(*                                                                         *)
(* Library behaviour the supervisor relies on:                             *)
(*  - log.Fatalf and zap's Logger.Fatal write the entry and call           *)
(*    os.Exit(1); os.Exit does not run deferred functions.                 *)
(*  - SIGINT and SIGTERM terminate the process until signal.Notify has     *)
(*    registered the quit channel; afterwards they are sent to the channel *)
(*    without blocking and dropped when its one-slot buffer is full.       *)
(*  - http.Server.ListenAndServe returns ErrServerClosed when Shutdown has *)
(*    already begun, the error of net.Listen when binding fails, and       *)
(*    ErrServerClosed from Serve once the listener was closed by Shutdown. *)
(*    A successful Accept is served whether or not Shutdown has begun.     *)
(*  - http.Server.Shutdown marks the server as shutting down, closes the   *)
(*    tracked listeners (keeping the close error), waits for Serve to      *)
(*    leave, then polls: each poll closes the idle connections and returns *)
(*    the close error when no connection is active; ctx.Err() is returned  *)
(*    when the context is done first.  A connection whose request ends     *)
(*    while the server is shutting down is not kept alive.                 *)
(***************************************************************************)
EXTENDS Naturals, Sequences, FiniteSets

\* number of client requests the environment may send
MaxReq == 2

\* context.WithTimeout(context.Background(), 5*time.Second)
ShutdownTimeout == 5

Requests == 1..MaxReq

VARIABLES
  pc,              \* position of the main goroutine
  cfgInit,         \* outcome of settings.Init: "pending" | "ok" | "failed"
  logInit,         \* outcome of logger.Init
  mysqlInit,       \* outcome of mysql.Init
  redisInit,       \* outcome of redis.Init
  db,              \* package variable mysql.db: "nil" | "open" | "closed"
  mysqlCloseCalls, \* invocations of mysql.Close
  redisCloseCalls, \* invocations of redis.Close
  defers,          \* deferred calls of main, last registered last
  notified,        \* signal.Notify has registered the quit channel
  bgpc,            \* position of the goroutine running srv.ListenAndServe
  bgErr,           \* value returned by srv.ListenAndServe
  inShutdown,      \* srv has been marked as shutting down
  listenerClosed,  \* Shutdown has closed the tracked listeners
  lnerr,           \* error of closing the listeners: "nil" | "closeErr"
  idleConns,       \* open keep-alive connections with no request in progress
  quit,            \* number of signals buffered in the quit channel (cap 1)
  reqs,            \* per request: "none" | "inflight" | "delivered"
  elapsed,         \* seconds since the shutdown context was created
  shutdownErr,     \* value returned by srv.Shutdown: "none" until it returns
  exitKind,        \* how the process ended; "none" while it runs
  sigInflight,     \* requests in flight when the signal arrived
  rcvIdle,         \* "na" | "idle" | "busy": listener serving with zero /
                   \*   some requests in flight when <-quit returned
  callIdle,        \* same, taken when srv.Shutdown was called
  callBeforeListen,\* srv.Shutdown was called before ListenAndServe was
  fatalAt          \* pc of main when the listener goroutine called Fatalf

initVars == <<cfgInit, logInit, mysqlInit, redisInit>>
storeVars == <<db, mysqlCloseCalls, redisCloseCalls>>
mainVars == <<pc, initVars, storeVars, defers, notified>>
bgVars   == <<bgpc, bgErr>>
srvVars  == <<inShutdown, listenerClosed, lnerr, idleConns>>
histVars == <<sigInflight, rcvIdle, callIdle, callBeforeListen, fatalAt>>

vars == <<mainVars, bgVars, srvVars, quit, reqs, elapsed, shutdownErr,
          exitKind, histVars>>

Running == exitKind = "none"

InFlight == {r \in Requests : reqs[r] = "inflight"}

Accepted == {r \in Requests : reqs[r] # "none"}

\* snapshot of the listener: serving or not, idle or busy
Idleness == IF bgpc # "serving" THEN "na"
            ELSE IF InFlight = {} THEN "idle" ELSE "busy"

----------------------------------------------------------------------------
\* mysql.Init: sqlx.Connect sets db; on error db stays nil and err is returned
MysqlInit(ok) == IF ok THEN [db |-> "open", err |-> FALSE]
                       ELSE [db |-> "nil",  err |-> TRUE]

\* mysql.Close: _ = db.Close(); a nil db is dereferenced and panics
MysqlClose(d) == IF d = "nil" THEN [db |-> "nil",    panic |-> TRUE]
                              ELSE [db |-> "closed", panic |-> FALSE]

\* err != nil && err != http.ErrServerClosed
IsFatalListenErr_AnyErr(err) == err # "nil"

IsFatalListenErr(err) == err # "nil" /\ err # "ErrServerClosed"

\* the deferred call that runs next, and the stack without it
TopDefer(s) == s[Len(s)]

PopDefer(s) == SubSeq(s, 1, Len(s) - 1)

----------------------------------------------------------------------------
Init ==
  /\ pc = "settings"
  /\ cfgInit = "pending" /\ logInit = "pending"
  /\ mysqlInit = "pending" /\ redisInit = "pending"
  /\ db = "nil"
  /\ mysqlCloseCalls = 0 /\ redisCloseCalls = 0
  /\ defers = <<>>
  /\ notified = FALSE
  /\ bgpc = "idle" /\ bgErr = "none"
  /\ inShutdown = FALSE /\ listenerClosed = FALSE /\ lnerr = "nil"
  /\ idleConns = 0
  /\ quit = 0
  /\ reqs = [r \in Requests |-> "none"]
  /\ elapsed = 0
  /\ shutdownErr = "none"
  /\ exitKind = "none"
  /\ sigInflight = {}
  /\ rcvIdle = "na" /\ callIdle = "na"
  /\ callBeforeListen = FALSE
  /\ fatalAt = "none"

\* what no step of main before the shutdown changes
restOfProcess == <<bgVars, srvVars, quit, reqs, elapsed, shutdownErr,
                   exitKind, histVars>>

----------------------------------------------------------------------------
\* main.go 26-29
SettingsInit ==
  /\ Running /\ pc = "settings"
  /\ \E ok \in BOOLEAN :
       /\ cfgInit' = IF ok THEN "ok" ELSE "failed"
       /\ pc' = IF ok THEN "logger" ELSE "returning"
  /\ UNCHANGED <<logInit, mysqlInit, redisInit, storeVars, defers, notified,
                 restOfProcess>>

\* main.go 32-39
LoggerInit ==
  /\ Running /\ pc = "logger"
  /\ \E ok \in BOOLEAN :
       /\ logInit' = IF ok THEN "ok" ELSE "failed"
       /\ pc' = IF ok THEN "mysql" ELSE "returning"
       /\ defers' = IF ok THEN Append(defers, "Sync") ELSE defers
  /\ UNCHANGED <<cfgInit, mysqlInit, redisInit, storeVars, notified,
                 restOfProcess>>

\* main.go 42-46, with the failure branch removed
MysqlInitStep_NoReturn ==
  /\ Running /\ pc = "mysql"
  /\ \E ok \in BOOLEAN :
       LET res == MysqlInit(ok) IN
       /\ db' = res.db
       /\ mysqlInit' = IF res.err THEN "failed" ELSE "ok"
       /\ pc' = "redis"
       /\ defers' = IF res.err THEN defers ELSE Append(defers, "mysql.Close")
  /\ UNCHANGED <<cfgInit, logInit, redisInit, mysqlCloseCalls,
                 redisCloseCalls, notified, restOfProcess>>

\* main.go 42-46, with the close registered twice
MysqlInitStep_DoubleDefer ==
  /\ Running /\ pc = "mysql"
  /\ \E ok \in BOOLEAN :
       LET res == MysqlInit(ok) IN
       /\ db' = res.db
       /\ mysqlInit' = IF res.err THEN "failed" ELSE "ok"
       /\ pc' = IF res.err THEN "returning" ELSE "redis"
       /\ defers' = IF res.err THEN defers
                    ELSE defers \o <<"mysql.Close", "mysql.Close">>
  /\ UNCHANGED <<cfgInit, logInit, redisInit, mysqlCloseCalls,
                 redisCloseCalls, notified, restOfProcess>>

\* main.go 42-46
MysqlInitStep ==
  /\ Running /\ pc = "mysql"
  /\ \E ok \in BOOLEAN :
       LET res == MysqlInit(ok) IN
       /\ db' = res.db
       /\ mysqlInit' = IF res.err THEN "failed" ELSE "ok"
       /\ pc' = IF res.err THEN "returning" ELSE "redis"
       /\ defers' = IF res.err THEN defers ELSE Append(defers, "mysql.Close")
  /\ UNCHANGED <<cfgInit, logInit, redisInit, mysqlCloseCalls,
                 redisCloseCalls, notified, restOfProcess>>

\* main.go 49-53, with the deferred close registered before the error check
RedisInitStep_DeferFirst ==
  /\ Running /\ pc = "redis"
  /\ \E ok \in BOOLEAN :
       /\ redisInit' = IF ok THEN "ok" ELSE "failed"
       /\ pc' = IF ok THEN "spawn" ELSE "returning"
       /\ defers' = Append(defers, "redis.Close")
  /\ UNCHANGED <<cfgInit, logInit, mysqlInit, storeVars, notified,
                 restOfProcess>>

\* main.go 49-53
RedisInitStep ==
  /\ Running /\ pc = "redis"
  /\ \E ok \in BOOLEAN :
       /\ redisInit' = IF ok THEN "ok" ELSE "failed"
       /\ pc' = IF ok THEN "spawn" ELSE "returning"
       /\ defers' = IF ok THEN Append(defers, "redis.Close") ELSE defers
  /\ UNCHANGED <<cfgInit, logInit, mysqlInit, storeVars, notified,
                 restOfProcess>>

\* main.go 55-66: routes.Setup, the server value, go func() { ... }()
StartListener ==
  /\ Running /\ pc = "spawn"
  /\ pc' = "notify"
  /\ bgpc' = "spawned"
  /\ UNCHANGED <<initVars, storeVars, defers, notified, bgErr, srvVars, quit,
                 reqs, elapsed, shutdownErr, exitKind, histVars>>

\* main.go 69-74: quit := make(chan os.Signal, 1); signal.Notify(...)
SignalNotify ==
  /\ Running /\ pc = "notify"
  /\ pc' = "wait"
  /\ notified' = TRUE
  /\ UNCHANGED <<initVars, storeVars, defers, restOfProcess>>

\* main.go 69-74: SIGINT or SIGTERM after signal.Notify is forwarded to quit
\* without blocking; while one signal is buffered a further one is dropped
\* and changes nothing
SignalArrive ==
  /\ Running /\ notified
  /\ quit = 0
  /\ quit' = 1
  /\ sigInflight' = IF pc = "wait" THEN InFlight ELSE sigInflight
  /\ UNCHANGED <<mainVars, bgVars, srvVars, reqs, elapsed, shutdownErr,
                 exitKind, rcvIdle, callIdle, callBeforeListen, fatalAt>>

\* main.go 24-74: SIGINT or SIGTERM before signal.Notify has its default
\* disposition: the process is terminated and no deferred call runs
SignalKill ==
  /\ Running /\ ~notified
  /\ exitKind' = "signal"
  /\ UNCHANGED <<mainVars, bgVars, srvVars, quit, reqs, elapsed, shutdownErr,
                 histVars>>

\* main.go 75-76: <-quit
WaitQuit ==
  /\ Running /\ pc = "wait"
  /\ quit > 0
  /\ quit' = quit - 1
  /\ pc' = "ctx"
  /\ rcvIdle' = Idleness
  /\ UNCHANGED <<initVars, storeVars, defers, notified, bgVars, srvVars,
                 reqs, elapsed, shutdownErr, exitKind, sigInflight, callIdle,
                 callBeforeListen, fatalAt>>

\* main.go 78-79: ctx, cancel := context.WithTimeout(...); defer cancel()
CreateCtx ==
  /\ Running /\ pc = "ctx"
  /\ pc' = "shutdown"
  /\ elapsed' = 0
  /\ defers' = Append(defers, "cancel")
  /\ UNCHANGED <<initVars, storeVars, notified, bgVars, srvVars, quit, reqs,
                 shutdownErr, exitKind, histVars>>

\* main.go 81 written as `go srv.Shutdown(ctx)`: main does not wait for it
ShutdownMark_Async ==
  /\ Running /\ pc = "shutdown"
  /\ inShutdown' = TRUE
  /\ callIdle' = Idleness
  /\ callBeforeListen' = (bgpc = "spawned")
  /\ pc' = "returning"
  /\ UNCHANGED <<initVars, storeVars, defers, notified, bgVars,
                 listenerClosed, lnerr, idleConns, quit, reqs, elapsed,
                 shutdownErr, exitKind, sigInflight, rcvIdle, fatalAt>>

\* main.go 81: srv.Shutdown(ctx) is entered and marks the server as
\* shutting down
ShutdownMark ==
  /\ Running /\ pc = "shutdown"
  /\ inShutdown' = TRUE
  /\ callIdle' = Idleness
  /\ callBeforeListen' = (bgpc = "spawned")
  /\ pc' = "closeListeners"
  /\ UNCHANGED <<initVars, storeVars, defers, notified, bgVars,
                 listenerClosed, lnerr, idleConns, quit, reqs, elapsed,
                 shutdownErr, exitKind, sigInflight, rcvIdle, fatalAt>>

\* main.go 81: srv.Shutdown closes the tracked listeners; closing a listener
\* may fail and the error is kept
ShutdownCloseListeners ==
  /\ Running /\ pc = "closeListeners"
  /\ listenerClosed' = TRUE
  /\ \E e \in {"nil", "closeErr"} :
       /\ e = "closeErr" => bgpc = "serving"
       /\ lnerr' = e
  /\ pc' = "listenerWait"
  /\ UNCHANGED <<initVars, storeVars, defers, notified, bgVars, inShutdown,
                 idleConns, quit, reqs, elapsed, shutdownErr, exitKind,
                 histVars>>

\* main.go 81: once Serve has left, the first poll of srv.Shutdown closes the
\* idle connections and returns the close error when none is active
ShutdownFirstPoll ==
  /\ Running /\ pc = "listenerWait"
  /\ bgpc # "serving"
  /\ idleConns' = 0
  /\ IF InFlight = {}
     THEN /\ shutdownErr' = lnerr
          /\ pc' = "checkErr"
     ELSE /\ shutdownErr' = shutdownErr
          /\ pc' = "polling"
  /\ UNCHANGED <<initVars, storeVars, defers, notified, bgVars, inShutdown,
                 listenerClosed, lnerr, quit, reqs, elapsed, exitKind,
                 histVars>>

\* srv.Shutdown returning without waiting for the active connections
ShutdownPoll_NoWait ==
  /\ Running /\ pc = "polling"
  /\ shutdownErr' = lnerr
  /\ pc' = "checkErr"
  /\ UNCHANGED <<initVars, storeVars, defers, notified, bgVars, srvVars,
                 quit, reqs, elapsed, exitKind, histVars>>

\* main.go 81: a later poll of srv.Shutdown finds no active connection
ShutdownPoll ==
  /\ Running /\ pc = "polling"
  /\ InFlight = {}
  /\ shutdownErr' = lnerr
  /\ pc' = "checkErr"
  /\ UNCHANGED <<initVars, storeVars, defers, notified, bgVars, srvVars,
                 quit, reqs, elapsed, exitKind, histVars>>

\* srv.Shutdown with a context that never expires
ShutdownCtxDone_NoDeadline ==
  /\ Running /\ pc = "polling"
  /\ elapsed > ShutdownTimeout
  /\ shutdownErr' = "DeadlineExceeded"
  /\ pc' = "checkErr"
  /\ UNCHANGED <<initVars, storeVars, defers, notified, bgVars, srvVars,
                 quit, reqs, elapsed, exitKind, histVars>>

\* main.go 78-81: the 5 second context is done while srv.Shutdown waits
\* between two polls
ShutdownCtxDone ==
  /\ Running /\ pc = "polling"
  /\ elapsed = ShutdownTimeout
  /\ shutdownErr' = "DeadlineExceeded"
  /\ pc' = "checkErr"
  /\ UNCHANGED <<initVars, storeVars, defers, notified, bgVars, srvVars,
                 quit, reqs, elapsed, exitKind, histVars>>

\* main.go 81-83: if err != nil { zap.L().Fatal(...) }; Fatal calls os.Exit(1)
CheckShutdownErr ==
  /\ Running /\ pc = "checkErr"
  /\ IF shutdownErr # "nil"
     THEN /\ exitKind' = "shutdownFatal"
          /\ pc' = "exited"
     ELSE /\ exitKind' = exitKind
          /\ pc' = "returning"
  /\ UNCHANGED <<initVars, storeVars, defers, notified, bgVars, srvVars,
                 quit, reqs, elapsed, shutdownErr, histVars>>

\* main returns: the deferred calls of main.go 37, 46, 53, 79 run last-in
\* first-out, one per step; a panic in mysql.Close ends the process
RunDeferred ==
  /\ Running /\ pc = "returning"
  /\ defers # <<>>
  /\ LET f == TopDefer(defers)
         res == MysqlClose(db) IN
       /\ db' = IF f = "mysql.Close" THEN res.db ELSE db
       /\ mysqlCloseCalls' = IF f = "mysql.Close" THEN mysqlCloseCalls + 1
                             ELSE mysqlCloseCalls
       /\ redisCloseCalls' = IF f = "redis.Close" THEN redisCloseCalls + 1
                             ELSE redisCloseCalls
       /\ exitKind' = IF f = "mysql.Close" /\ res.panic THEN "panic"
                      ELSE exitKind
  /\ defers' = PopDefer(defers)
  /\ UNCHANGED <<pc, initVars, notified, bgVars, srvVars, quit, reqs,
                 elapsed, shutdownErr, histVars>>

\* main.go 28, 34, 44, 51, 85: main has returned and the process ends
MainReturn ==
  /\ Running /\ pc = "returning"
  /\ defers = <<>>
  /\ pc' = "exited"
  /\ exitKind' = "return"
  /\ UNCHANGED <<initVars, storeVars, defers, notified, bgVars, srvVars,
                 quit, reqs, elapsed, shutdownErr, histVars>>

\* one second of the shutdown context passes
Tick ==
  /\ Running
  /\ pc \in {"shutdown", "closeListeners", "listenerWait", "polling"}
  /\ elapsed < ShutdownTimeout
  /\ elapsed' = elapsed + 1
  /\ UNCHANGED <<mainVars, bgVars, srvVars, quit, reqs, shutdownErr,
                 exitKind, histVars>>

----------------------------------------------------------------------------
\* main.go 63: srv.ListenAndServe is entered; it returns ErrServerClosed at
\* once when the server is already shutting down
BgListenAndServe ==
  /\ Running /\ bgpc = "spawned"
  /\ IF inShutdown
     THEN bgErr' = "ErrServerClosed" /\ bgpc' = "check"
     ELSE bgErr' = bgErr /\ bgpc' = "listen"
  /\ UNCHANGED <<mainVars, srvVars, quit, reqs, elapsed, shutdownErr,
                 exitKind, histVars>>

\* main.go 63: net.Listen inside ListenAndServe binds the port or fails
BgListen ==
  /\ Running /\ bgpc = "listen"
  /\ \E ok \in BOOLEAN :
       IF ok THEN bgErr' = bgErr /\ bgpc' = "track"
             ELSE bgErr' = "bindErr" /\ bgpc' = "check"
  /\ UNCHANGED <<mainVars, srvVars, quit, reqs, elapsed, shutdownErr,
                 exitKind, histVars>>

\* main.go 63: Serve registers the listener, or returns ErrServerClosed when
\* the server is shutting down
BgServe ==
  /\ Running /\ bgpc = "track"
  /\ IF inShutdown
     THEN bgErr' = "ErrServerClosed" /\ bgpc' = "check"
     ELSE bgErr' = bgErr /\ bgpc' = "serving"
  /\ UNCHANGED <<mainVars, srvVars, quit, reqs, elapsed, shutdownErr,
                 exitKind, histVars>>

\* main.go 63: Accept fails on the listener closed by Shutdown and Serve
\* returns ErrServerClosed
BgServeClosed ==
  /\ Running /\ bgpc = "serving"
  /\ listenerClosed
  /\ bgErr' = "ErrServerClosed"
  /\ bgpc' = "check"
  /\ UNCHANGED <<mainVars, srvVars, quit, reqs, elapsed, shutdownErr,
                 exitKind, histVars>>

\* main.go 63-65 with log.Printf in place of log.Fatalf
BgCheck_NoExit ==
  /\ Running /\ bgpc = "check"
  /\ bgpc' = "done"
  /\ fatalAt' = IF IsFatalListenErr(bgErr) THEN pc ELSE fatalAt
  /\ UNCHANGED <<mainVars, bgErr, srvVars, quit, reqs, elapsed,
                 shutdownErr, exitKind, sigInflight, rcvIdle, callIdle,
                 callBeforeListen>>

\* main.go 63-65: if err != nil && err != http.ErrServerClosed
\* { log.Fatalf(...) }; Fatalf calls os.Exit(1)
BgCheck ==
  /\ Running /\ bgpc = "check"
  /\ bgpc' = "done"
  /\ IF IsFatalListenErr(bgErr)
     THEN exitKind' = "listenFatal" /\ fatalAt' = pc
     ELSE exitKind' = exitKind /\ fatalAt' = fatalAt
  /\ UNCHANGED <<mainVars, bgErr, srvVars, quit, reqs, elapsed,
                 shutdownErr, sigInflight, rcvIdle, callIdle,
                 callBeforeListen>>

\* main.go 57-63: Serve accepts a new connection and its request is served;
\* Accept succeeds until the listener is closed
Accept(r) ==
  /\ Running /\ bgpc = "serving" /\ ~listenerClosed
  /\ reqs[r] = "none"
  /\ reqs' = [reqs EXCEPT ![r] = "inflight"]
  /\ UNCHANGED <<mainVars, bgVars, srvVars, quit, elapsed, shutdownErr,
                 exitKind, histVars>>

\* main.go 57-63: a request arrives on an idle keep-alive connection
KeepAliveRequest(r) ==
  /\ Running /\ idleConns > 0
  /\ reqs[r] = "none"
  /\ reqs' = [reqs EXCEPT ![r] = "inflight"]
  /\ idleConns' = idleConns - 1
  /\ UNCHANGED <<mainVars, bgVars, inShutdown, listenerClosed, lnerr, quit,
                 elapsed, shutdownErr, exitKind, histVars>>

\* main.go 57-63: the handler of a request finishes and its response is
\* written; the connection is kept alive only when the client asks for it
\* and the server is not shutting down
Complete(r) ==
  /\ Running
  /\ reqs[r] = "inflight"
  /\ reqs' = [reqs EXCEPT ![r] = "delivered"]
  /\ \E keep \in BOOLEAN :
       idleConns' = IF keep /\ ~inShutdown THEN idleConns + 1 ELSE idleConns
  /\ UNCHANGED <<mainVars, bgVars, inShutdown, listenerClosed, lnerr, quit,
                 elapsed, shutdownErr, exitKind, histVars>>

----------------------------------------------------------------------------
MainStep ==
  \/ SettingsInit \/ LoggerInit \/ MysqlInitStep \/ RedisInitStep
  \/ StartListener \/ SignalNotify \/ WaitQuit \/ CreateCtx
  \/ ShutdownMark \/ ShutdownCloseListeners \/ ShutdownFirstPoll
  \/ ShutdownPoll \/ ShutdownCtxDone \/ CheckShutdownErr
  \/ RunDeferred \/ MainReturn

BgStep == BgListenAndServe \/ BgListen \/ BgServe \/ BgServeClosed \/ BgCheck

EnvStep ==
  \/ SignalArrive \/ SignalKill
  \/ \E r \in Requests : Accept(r) \/ KeepAliveRequest(r) \/ Complete(r)

Next == MainStep \/ BgStep \/ EnvStep \/ Tick

Spec == Init /\ [][Next]_vars

\* the Go scheduler keeps running runnable goroutines, and time passes
LiveSpec == Spec /\ WF_vars(MainStep) /\ WF_vars(BgStep) /\ WF_vars(Tick)

----------------------------------------------------------------------------
Exited == exitKind # "none"

AllInitOk == /\ cfgInit = "ok" /\ logInit = "ok"
             /\ mysqlInit = "ok" /\ redisInit = "ok"

AnyInitFailed == "failed" \in {cfgInit, logInit, mysqlInit, redisInit}

TeardownCalls == mysqlCloseCalls + redisCloseCalls

\* C1: the listener goroutine exists only when settings, logger, MySQL and
\* Redis initialization all succeeded; after any failed initialization the
\* listener is never started, no request is accepted, and main is returning
\* or the process has ended.
C1_ListenerAfterInits ==
  /\ bgpc # "idle" => AllInitOk
  /\ AnyInitFailed => /\ bgpc = "idle"
                      /\ Accepted = {}
                      /\ pc \in {"returning", "exited"}

C1_Witness == mysqlInit = "failed" /\ exitKind = "return" /\ bgpc = "idle"

\* C2: when srv.Shutdown returned DeadlineExceeded and the process has
\* ended, mysql.Close and redis.Close have both been invoked.
C2_TeardownAfterDeadline ==
  Exited /\ shutdownErr = "DeadlineExceeded"
     => mysqlCloseCalls = 1 /\ redisCloseCalls = 1

\* C3: when <-quit returned while the listener was serving with no request
\* in flight, srv.Shutdown does not return DeadlineExceeded and at process
\* end each store has been closed exactly once.
C3_IdleAtSignal ==
  rcvIdle = "idle" =>
     /\ shutdownErr # "DeadlineExceeded"
     /\ Exited => mysqlCloseCalls = 1 /\ redisCloseCalls = 1

\* C4 as stated: in every execution a store is closed only after
\* srv.Shutdown has returned.
C4_TeardownAfterShutdown == TeardownCalls > 0 => shutdownErr # "none"

\* C4 amended: in every execution in which the listener goroutine was
\* started, a store is closed only after srv.Shutdown has returned.
C4_TeardownAfterShutdownIfStarted ==
  bgpc # "idle" /\ TeardownCalls > 0 => shutdownErr # "none"

C4_Witness == bgpc # "idle" /\ redisCloseCalls = 1 /\ shutdownErr = "nil"

\* C5: for a request in flight when the signal arrived: while it is being
\* served both stores are still open, and once srv.Shutdown has returned
\* its response has been delivered unless the deadline has elapsed.
C5_DrainBeforeTeardown ==
  \A r \in sigInflight :
     /\ reqs[r] = "inflight" /\ Running
           => db = "open" /\ TeardownCalls = 0
     /\ shutdownErr # "none"
           => reqs[r] = "delivered" \/ elapsed = ShutdownTimeout

C5_Witness ==
  \E r \in sigInflight :
     /\ callIdle = "busy"
     /\ reqs[r] = "delivered"
     /\ shutdownErr = "nil"
     /\ elapsed < ShutdownTimeout

\* C6: on every path each store's close is invoked at most once.
C6_CloseAtMostOnce == mysqlCloseCalls <= 1 /\ redisCloseCalls <= 1

C6_Witness == mysqlCloseCalls = 1 /\ redisCloseCalls = 1 /\ defers = <<>>

\* C7: when ListenAndServe returned an error other than ErrServerClosed
\* while main was blocked on <-quit, the process has ended through
\* log.Fatalf, main never left the wait, and srv.Shutdown was never called.
C7_ListenFatalPath ==
  fatalAt = "wait" =>
     /\ exitKind = "listenFatal"
     /\ pc = "wait"
     /\ ~inShutdown /\ shutdownErr = "none"

C7_Witness == fatalAt = "wait" /\ bgErr = "bindErr" /\ quit = 0

\* C8: once main has received the signal the process eventually ends,
\* whether or not requests complete; srv.Shutdown returns without a
\* deadline failure only with no request in flight and DeadlineExceeded only
\* when the deadline elapsed.
C8_EventuallyExits ==
  /\ (pc = "ctx") ~> Exited
  /\ [](shutdownErr \in {"nil", "closeErr"} => InFlight = {})
  /\ [](shutdownErr = "DeadlineExceeded" => elapsed = ShutdownTimeout)

C8_Witness ==
  /\ exitKind = "shutdownFatal"
  /\ InFlight # {}
  /\ elapsed = ShutdownTimeout

\* C9 as stated: a store's close is invoked only if its own initialization
\* succeeded; after a failed MySQL initialization neither close is invoked;
\* after a failed Redis initialization redis.Close is never invoked and at
\* process end mysql.Close has been invoked exactly once.
C9_CloseOnlyIfInit ==
  /\ mysqlCloseCalls > 0 => mysqlInit = "ok"
  /\ redisCloseCalls > 0 => redisInit = "ok"
  /\ exitKind # "panic"
  /\ mysqlInit = "failed" => TeardownCalls = 0
  /\ redisInit = "failed" =>
        /\ redisCloseCalls = 0 /\ mysqlCloseCalls <= 1
        /\ Exited => mysqlCloseCalls = 1

\* C9 amended: as C9, except that after a failed Redis initialization
\* mysql.Close has been invoked exactly once when main has returned; a
\* process terminated by a signal before that has invoked it at most once.
C9_CloseOnlyIfInitAtReturn ==
  /\ mysqlCloseCalls > 0 => mysqlInit = "ok"
  /\ redisCloseCalls > 0 => redisInit = "ok"
  /\ exitKind # "panic"
  /\ mysqlInit = "failed" => TeardownCalls = 0
  /\ redisInit = "failed" =>
        /\ redisCloseCalls = 0 /\ mysqlCloseCalls <= 1
        /\ exitKind = "return" => mysqlCloseCalls = 1
        /\ Exited => exitKind \in {"return", "signal"}

C9_Witness ==
  /\ redisInit = "failed" /\ exitKind = "return"
  /\ mysqlCloseCalls = 1 /\ redisCloseCalls = 0

\* C10: a ListenAndServe return of ErrServerClosed never ends the process
\* through log.Fatalf; when srv.Shutdown was called before the goroutine
\* entered ListenAndServe, ListenAndServe returns ErrServerClosed and no
\* request is ever accepted.
C10_ClosedIsNotFatal ==
  /\ bgErr = "ErrServerClosed" => exitKind # "listenFatal"
  /\ callBeforeListen =>
        /\ Accepted = {}
        /\ bgpc \in {"spawned", "check", "done"}
        /\ bgpc \in {"check", "done"} => bgErr = "ErrServerClosed"

C10_Witness ==
  /\ callBeforeListen
  /\ bgpc = "done" /\ bgErr = "ErrServerClosed"
  /\ exitKind = "return"
====
